---------------------------- MODULE Spec2Model ----------------------------
(***************************************************************************)
(* A model of Exeedo/hashing: the keyed SipHash-style hasher of            *)
(* src/siphash.py and the open-addressing hash table of src/hashtable.py.  *)
(*                                                                         *)
(* Python integers are unbounded and two's complement under the bitwise    *)
(* operators.  An integer is modelled as a record [neg, s]: neg is the     *)
(* sign (the value of every bit above the written ones) and s the finite   *)
(* set of bit positions whose bit differs from the sign bit.  So 5 is      *)
(* [neg |-> FALSE, s |-> {0, 2}], -1 is [neg |-> TRUE, s |-> {}] and       *)
(* 2^64 is [neg |-> FALSE, s |-> {64}].  The representation is canonical:  *)
(* two records are equal exactly when the integers are.                    *)
(***************************************************************************)
EXTENDS Integers, Sequences, FiniteSets, TLC

(***************************************************************************)
(* Bounds of the model.                                                    *)
(***************************************************************************)
\* table keys are the integers 0 .. MaxKey
MaxKey == 1
\* values are 1 .. MaxVal
MaxVal == 2
\* no update is made that would take the table's used count above MaxUsed
MaxUsed == 9
\* no remove is made once MaxRemoves entries have been marked deleted
MaxRemoves == 1
\* keys of the fill scenario are 0 .. MaxFillKey
MaxFillKey == 8
\* the calls of get_hash made on one hasher instance
MaxCalls == 2

(***************************************************************************)
(* Python's int: conversion from and to small naturals.                    *)
(***************************************************************************)
RECURSIVE NatBits(_, _)
NatBits(n, i) ==
    IF n = 0 THEN {}
    ELSE (IF n % 2 = 1 THEN {i} ELSE {}) \cup NatBits(n \div 2, i + 1)

RECURSIVE Pow2(_)
Pow2(i) == IF i = 0 THEN 1 ELSE 2 * Pow2(i - 1)

RECURSIVE SetSum(_)
SetSum(S) ==
    IF S = {} THEN 0
    ELSE LET i == CHOOSE x \in S : TRUE IN Pow2(i) + SetSum(S \ {i})

\* the Python int of the small integer n
PyInt(n) ==
    IF n >= 0 THEN [neg |-> FALSE, s |-> NatBits(n, 0)]
    ELSE [neg |-> TRUE, s |-> NatBits(-n - 1, 0)]

\* the small natural a non-negative Python int below 2^30 stands for
PyNat(x) == SetSum(x.s)

PyZero == [neg |-> FALSE, s |-> {}]

\* bit i of x
PyBit(x, i) == (i \in x.s) # x.neg

\* the truth value of x (`while upper:`)
PyTruthy(x) == x # PyZero

(***************************************************************************)
(* Python's int operators  &  |  ^  ~  <<  >>  +                           *)
(***************************************************************************)
\* the result's bits above both written parts are its sign; of two
\* non-negative ints the set bits are those set in both (&), in either (|)
PyAnd(x, y) ==
    IF ~x.neg /\ ~y.neg THEN [neg |-> FALSE, s |-> x.s \cap y.s]
    ELSE [neg |-> x.neg /\ y.neg,
          s   |-> {i \in x.s \cup y.s :
                     (PyBit(x, i) /\ PyBit(y, i)) # (x.neg /\ y.neg)}]

PyOr(x, y) ==
    IF ~x.neg /\ ~y.neg THEN [neg |-> FALSE, s |-> x.s \cup y.s]
    ELSE [neg |-> x.neg \/ y.neg,
          s   |-> {i \in x.s \cup y.s :
                     (PyBit(x, i) \/ PyBit(y, i)) # (x.neg \/ y.neg)}]

PyXor(x, y) ==
    [neg |-> x.neg # y.neg,
     s   |-> (x.s \ y.s) \cup (y.s \ x.s)]

\* ~x, which is -x - 1
PyInvert(x) == [neg |-> ~x.neg, s |-> x.s]

\* x << k: the low k bits are 0
PyShl(x, k) ==
    [neg |-> x.neg,
     s   |-> {i + k : i \in x.s} \cup (IF x.neg THEN 0 .. (k - 1) ELSE {})]

\* x >> k: an arithmetic shift, the sign is kept
PyShr(x, k) ==
    [neg |-> x.neg, s |-> {i - k : i \in {j \in x.s : j >= k}}]

\* x + y of two non-negative ints: sum without carries, plus the carries
RECURSIVE PyAdd(_, _)
PyAdd(x, y) ==
    IF y.s = {} THEN x
    ELSE PyAdd(PyXor(x, y), PyShl(PyAnd(x, y), 1))

\* int.bit_length(): the bits of the magnitude
PyBitLength(x) ==
    LET mag == IF x.neg THEN PyAdd(PyInvert(x), PyInt(1)) ELSE x
    IN  IF mag.s = {} THEN 0
        ELSE 1 + (CHOOSE i \in mag.s : \A j \in mag.s : j <= i)

\* len(bin(x)): "0b" and the digits of the magnitude ("0" for 0), "-" first
\* for a negative int
PyBinLen(x) ==
    (IF x.neg THEN 1 ELSE 0) + 2
        + (IF PyBitLength(x) = 0 THEN 1 ELSE PyBitLength(x))

(***************************************************************************)
(* src/siphash.py: the module's functions                                  *)
(***************************************************************************)
Mask64 == [neg |-> FALSE, s |-> 0 .. 63]

split_lower_upper_words(big_int) ==
    [lower |-> PyAnd(big_int, Mask64), upper |-> PyShr(big_int, 64)]

\* lower | upper
join_words(lu) == PyOr(lu.lower, lu.upper)

circular_shift(var, shift) ==
    join_words(split_lower_upper_words(PyShl(var, shift)))

\* a string is the sequence of its characters' code points
RECURSIVE str2int_from(_, _, _)
str2int_from(str_msg, i, int_msg) ==
    IF i > Len(str_msg) THEN int_msg
    ELSE str2int_from(str_msg, i + 1,
                      PyOr(int_msg, PyShl(PyInt(str_msg[i]), (i - 1) * 8)))

str2int(str_msg) == str2int_from(str_msg, 1, PyZero)

negate(val) == PyInvert(PyXor(val, Mask64))

(***************************************************************************)
(* src/siphash.py: class SipHash.  An instance is a record of its fields;  *)
(* a method is an operator from the instance (and its arguments) to the    *)
(* instance after the call.  The field hung is not a Python field: it is   *)
(* TRUE when the call entered a loop it never leaves.                      *)
(***************************************************************************)
Hex64(hi, lo) == PyOr(PyShl(PyInt(hi), 32), PyInt(lo))

\* 0x736F6D6570736575, 0x646F72616E646F6D, 0x6C7967656E657261,
\* 0x7465646279746573
InitConst ==
    << Hex64(1936682341, 1886610805), Hex64(1685025377, 1852075885),
       Hex64(1819895653, 1852142177), Hex64(1952801890, 2037671283) >>

SipHash_init(secret_key, allow_negative) ==
    [secret_key      |-> secret_key,
     state_variables |-> << PyZero, PyZero, PyZero, PyZero >>,
     hash_value      |-> PyZero,
     allow_negative  |-> allow_negative,
     hung            |-> FALSE]

\* k0 and k1 are the two words of the secret key
initialization_words(self, k0, k1) ==
    [self EXCEPT !.state_variables =
        << PyXor(k0, InitConst[1]), PyXor(k1, InitConst[2]),
           PyXor(k0, InitConst[3]), PyXor(k1, InitConst[4]) >>]

initialization(self) ==
    initialization_words(self,
                         split_lower_upper_words(self.secret_key).lower,
                         split_lower_upper_words(self.secret_key).upper)

\* a faulty __reset, which leaves the accumulated hash value of the call
\* before
reset_keep_hash(self) ==
    initialization(
        [self EXCEPT !.state_variables = << PyZero, PyZero, PyZero, PyZero >>])

reset(self) ==
    [initialization(
        [self EXCEPT !.state_variables = << PyZero, PyZero, PyZero, PyZero >>])
     EXCEPT !.hash_value = PyZero]

\* __add_size_byte: the sizes are small Python ints, kept as naturals
add_size_byte(msg) ==
    LET size_bits   == PyBinLen(msg) - 2
        size_bytes0 == (size_bits + 7) \div 8
        size_words0 == (size_bytes0 + 8) \div 8
        size_bytes  == size_bytes0 % 256
        size_words  == size_words0 * 64
    IN  PyOr(msg, PyShl(PyInt(size_bytes), size_words - 8))

\* __half_sipround, lines 83 to 86: v0 and v2 are var[0] and var[2] after
\* the two additions
half_sipround_mix(var, v0, v2, s, t) ==
    << v2,
       PyXor(circular_shift(var[2], s), v0),
       circular_shift(v0, 32),
       PyXor(circular_shift(var[4], t), v2) >>

\* var is the list state_variables (1-based here)
half_sipround(var, s, t) ==
    half_sipround_mix(var,
                      split_lower_upper_words(PyAdd(var[1], var[2])).lower,
                      split_lower_upper_words(PyAdd(var[3], var[4])).lower,
                      s, t)

double_sipround(self) ==
    [self EXCEPT !.state_variables =
        half_sipround(half_sipround(half_sipround(half_sipround(
            @, 13, 16), 17, 21), 13, 16), 17, 21)]

compress_word(self, word) ==
    [double_sipround([self EXCEPT !.state_variables[4] = PyXor(@, word)])
        EXCEPT !.state_variables[1] = PyXor(@, word)]

\* the loop `while upper:` of __compression.  The loop's condition depends on
\* upper alone and each turn replaces upper by upper >> 64, so a turn that
\* leaves a non-zero upper unchanged repeats for ever.
RECURSIVE compression_loop(_, _)
compression_turn(self, upper, lu) ==
    IF lu.upper = upper THEN [self EXCEPT !.hung = TRUE]
    ELSE compression_loop(compress_word(self, lu.lower), lu.upper)

compression_loop(self, upper) ==
    IF ~PyTruthy(upper) THEN self
    ELSE compression_turn(self, upper, split_lower_upper_words(upper))

\* the words __compression hands to __compress_word, in order: words is
\* the list so far, upper what is left of the message; lu is upper split
RECURSIVE absorbed_loop(_, _)
absorbed_turn(words, upper, lu) ==
    IF lu.upper = upper THEN words
    ELSE absorbed_loop(Append(words, lu.lower), lu.upper)

absorbed_loop(words, upper) ==
    IF ~PyTruthy(upper) THEN words
    ELSE absorbed_turn(words, upper, split_lower_upper_words(upper))

absorbed_from(lu) == absorbed_loop(<< lu.lower >>, lu.upper)

absorbed_words(msg) ==
    absorbed_from(split_lower_upper_words(add_size_byte(msg)))

compression_words(self, lu) ==
    compression_loop(compress_word(self, lu.lower), lu.upper)

compression(self, msg) ==
    compression_words(self, split_lower_upper_words(add_size_byte(msg)))

finalization(self) ==
    double_sipround(double_sipround(
        [self EXCEPT !.state_variables[3] = PyXor(@, PyInt(255))]))

\* `for v in self.__state_variables: self.__hash_value ^= v`
xor_state(self) ==
    [self EXCEPT !.hash_value =
        PyXor(PyXor(PyXor(PyXor(@, self.state_variables[1]),
                          self.state_variables[2]),
                    self.state_variables[3]),
              self.state_variables[4])]

negate_hash(self) ==
    IF PyBit(self.hash_value, 63) /\ ~self.allow_negative
      THEN [self EXCEPT !.hash_value = negate(@)]
    ELSE self

\* what follows __compression, unless __compression never returns
siphash_finish(self) ==
    IF self.hung THEN self
    ELSE negate_hash(xor_state(finalization(self)))

siphash_main(self, int_msg) == siphash_finish(compression(self, int_msg))

\* an input is [type |-> "str", chars |-> sequence of code points],
\* [type |-> "int", val |-> int] or [type |-> "obj", id |-> id(input)]
get_hash(self, input_msg) ==
    IF input_msg.type = "str"
      THEN siphash_main(reset(self), str2int(input_msg.chars))
    ELSE IF input_msg.type = "int"
      THEN siphash_main(reset(self), input_msg.val)
    ELSE siphash_main(reset(self), input_msg.id)

(***************************************************************************)
(* The state.                                                              *)
(*   siphash            HashTableEntry.__siphash, the one hasher of the    *)
(*                      class, built with the process's default secret key *)
(*   hash_compress_bits HashTableEntry.hash_compress_bits                  *)
(*   entry_hash         the value of HashTableEntry.__get_hash for every   *)
(*                      key: get_hash resets the hasher at each call, so   *)
(*                      the value is a function of the key, of the secret  *)
(*                      key of siphash and of hash_compress_bits, and is   *)
(*                      computed once in Init                              *)
(*   table              the HashTable instance, a record of its fields     *)
(*   written            for every key the value of the last update of the  *)
(*                      key that returned, None if a remove of the key     *)
(*                      returned since (or the key was never updated)      *)
(*   removed            the number of entries remove has marked deleted    *)
(*   main_i             the loop variable i of the driver (line 257)       *)
(*   sip, calls         a SipHash instance of its own and the calls of     *)
(*                      get_hash that returned on it, each with the secret *)
(*                      key of the time, the input and the value returned  *)
(*                      (the hasher specification)                         *)
(* HashTable.collision_counter and the verbose printing are not modelled:  *)
(* no operation reads the counter.                                         *)
(***************************************************************************)
VARIABLES siphash, hash_compress_bits, entry_hash, table, written, removed,
          main_i, sip, calls

vars == << siphash, hash_compress_bits, entry_hash, table, written, removed,
           main_i, sip, calls >>

\* Python's None
None == [none |-> TRUE]

(***************************************************************************)
(* src/hashtable.py: class HashTableEntry                                  *)
(***************************************************************************)
RECURSIVE compress_hash_loop(_, _, _)
compress_hash_loop(hash_value, bits, compressed_hash) ==
    IF ~PyTruthy(hash_value) THEN compressed_hash
    ELSE compress_hash_loop(
            PyShr(hash_value, bits), bits,
            PyXor(compressed_hash,
                  PyAnd(hash_value, [neg |-> FALSE, s |-> 0 .. (bits - 1)])))

\* lower = (1 << bits) - 1 is the int whose bits 0 .. bits-1 are set
compress_hash(hash_value, bits) ==
    compress_hash_loop(hash_value, bits, PyZero)

\* __get_hash on the hasher h of the class: the value returned
entry_get_hash(h, bits, key) ==
    IF bits # 0
      THEN compress_hash(get_hash(h, [type |-> "int", val |-> key]).hash_value,
                         bits)
    ELSE get_hash(h, [type |-> "int", val |-> key]).hash_value

HashTableEntry(key, value) ==
    [key        |-> key,
     value      |-> value,
     hash_value |-> IF key = None THEN None ELSE entry_hash[key],
     dummy      |-> FALSE]

\* __eq__
entry_eq(self, other) ==
    IF self.hash_value # other.hash_value THEN FALSE
    ELSE self.key = other.key

\* a faulty set_dummy, which empties the entry
set_dummy_emptying(self) == [self EXCEPT !.hash_value = None]

set_dummy(self) == [self EXCEPT !.dummy = TRUE]

state(self) ==
    IF self.dummy THEN -1
    ELSE IF self.hash_value = None THEN 0
    ELSE 1

is_dummy(self) == state(self) = -1

is_filled(self) == state(self) = 1

is_empty(self) == state(self) = 0

(***************************************************************************)
(* src/hashtable.py: class HashTable.  The instance is a record of its     *)
(* fields.  internal_list is a list of references: [HashTableEntry()] *    *)
(* size makes every slot refer to ONE entry object, kept here in the field *)
(* empty_entry; a slot written by update refers to an entry object of its  *)
(* own.  The field hung is not a Python field: it is TRUE when a call      *)
(* entered a loop it never leaves, and then no later call is ever made.    *)
(***************************************************************************)
load_factor == 1

SharedRef == [shared |-> TRUE]

OwnRef(e) == [shared |-> FALSE, entry |-> e]

\* self.__internal_list[index]
entry_at(self, index) ==
    LET ref == self.internal_list[index + 1]
    IN  IF ref.shared THEN self.empty_entry ELSE ref.entry

init_internal_list(self) ==
    [self EXCEPT !.empty_entry   = HashTableEntry(None, None),
                 !.internal_list = [i \in 1 .. self.size |-> SharedRef]]

\* the value of get_new_index while the attribute __get_new_index is not set
Unset == "unset"

\* __init__ when no assert statement stops it
HashTable_init(hash_key, collision_resolution) ==
    init_internal_list(
        [size          |-> 8,
         used          |-> 0,
         update_used   |-> TRUE,
         internal_list |-> << >>,
         empty_entry   |-> None,
         hash_key      |-> hash_key,
         get_new_index |-> IF collision_resolution = "simple" THEN "simple"
                           ELSE IF collision_resolution = "modified"
                             THEN "modified"
                           ELSE IF collision_resolution = "pythonic"
                             THEN "pythonic"
                           ELSE Unset,
         hung          |-> FALSE])

\* the call HashTable(hash_key=..., collision_resolution=...): the instance
\* returned, or the exception raised.  debug is __debug__: python -O runs
\* with __debug__ False and without the assert statements of lines 108 and
\* 116, and then no branch of lines 109 to 114 sets __get_new_index.
HashTable_new(hash_key, collision_resolution, debug) ==
    IF debug /\ collision_resolution \notin {"simple", "modified", "pythonic"}
      THEN [raised |-> "AssertionError"]
    ELSE HashTable_init(hash_key, collision_resolution)

\* a faulty simple probing, which steps by two
simple_probing_by_two(self, prev_index, hash_value) ==
    [index      |-> PyNat(PyAnd(PyInt(prev_index + 2), PyInt(self.size - 1))),
     hash_value |-> hash_value]

simple_linear_probing(self, prev_index, hash_value) ==
    [index      |-> PyNat(PyAnd(PyInt(prev_index + 1), PyInt(self.size - 1))),
     hash_value |-> hash_value]

\* a faulty modified probing, which multiplies by 3: its orbit has period 4
modified_probing_by_three(self, prev_index, hash_value) ==
    [index      |-> PyNat(PyAnd(PyInt(3 * prev_index + 1),
                                PyInt(self.size - 1))),
     hash_value |-> hash_value]

modified_linear_probing(self, prev_index, hash_value) ==
    [index      |-> PyNat(PyAnd(PyInt(5 * prev_index + 1),
                                PyInt(self.size - 1))),
     hash_value |-> hash_value]

pythonic_linear_probing(self, prev_index, hash_value) ==
    [index      |-> PyNat(PyAnd(PyAdd(PyInt(5 * prev_index + 1), hash_value),
                                PyInt(self.size - 1))),
     hash_value |-> PyShr(hash_value, 5)]

get_new_index(self, prev_index, hash_value) ==
    IF self.get_new_index = "simple"
      THEN simple_linear_probing(self, prev_index, hash_value)
    ELSE IF self.get_new_index = "modified"
      THEN modified_linear_probing(self, prev_index, hash_value)
    ELSE pythonic_linear_probing(self, prev_index, hash_value)

\* the loop of __lookup_key.  A turn reads only index, hash_value and the
\* table, which the loop does not write: a pair (index, hash_value) met
\* twice is met for ever, and the call does not return.
RECURSIVE lookup_loop(_, _, _, _, _, _)
\* line 178 and the next turn: next is what __get_new_index returned
lookup_advance(self, entry, skip_dummy, index, next, seen) ==
    IF << next.index, next.hash_value >> \in seen
      THEN [index |-> index, hung |-> TRUE]
    ELSE lookup_loop(self, entry, skip_dummy, next.index, next.hash_value,
                     seen \cup {<< next.index, next.hash_value >>})

\* lines 169 to 176: cur is self.__internal_list[index]
lookup_turn(self, entry, skip_dummy, index, hash_value, seen, cur) ==
    IF is_dummy(cur) /\ ~skip_dummy
      THEN [index |-> index, hung |-> FALSE]
    ELSE IF ~is_dummy(cur) /\ is_filled(cur) /\ entry_eq(entry, cur)
      THEN [index |-> index, hung |-> FALSE]
    ELSE IF ~is_dummy(cur) /\ ~is_filled(cur)
      THEN [index |-> index, hung |-> FALSE]
    ELSE lookup_advance(self, entry, skip_dummy, index,
                        get_new_index(self, index, hash_value), seen)

lookup_loop(self, entry, skip_dummy, index, hash_value, seen) ==
    lookup_turn(self, entry, skip_dummy, index, hash_value, seen,
                entry_at(self, index))

\* lines 167 on: index is the initial index
lookup_from(self, entry, skip_dummy, index) ==
    lookup_loop(self, entry, skip_dummy, index, entry.hash_value,
                {<< index, entry.hash_value >>})

\* lines 165 on: entry is HashTableEntry(key=key)
lookup_entry(self, entry, skip_dummy) ==
    lookup_from(self, entry, skip_dummy,
                PyNat(PyAnd(entry.hash_value, PyInt(self.size - 1))))

lookup_key(self, key, skip_dummy) ==
    lookup_entry(self, HashTableEntry(key, None), skip_dummy)

\* a faulty get, which counts the slot it found as used
get_found_counting(self, found) ==
    IF found.hung THEN [self |-> [self EXCEPT !.hung = TRUE], value |-> None]
    ELSE IF is_filled(entry_at(self, found.index))
      THEN [self  |-> [self EXCEPT !.used = @ + 1],
            value |-> entry_at(self, found.index).value]
    ELSE [self |-> self, value |-> None]

\* lines 121 to 125: found is what __lookup_key returned
get_found(self, found) ==
    IF found.hung THEN [self |-> [self EXCEPT !.hung = TRUE], value |-> None]
    ELSE IF is_filled(entry_at(self, found.index))
      THEN [self |-> self, value |-> entry_at(self, found.index).value]
    ELSE [self |-> self, value |-> None]

\* get: the table after the call and the value returned
get(self, key) == get_found(self, lookup_key(self, key, TRUE))

\* set_dummy() on the object slot index refers to
set_dummy_at(self, index) ==
    IF self.internal_list[index + 1].shared
      THEN [self EXCEPT !.empty_entry = set_dummy(@)]
    ELSE [self EXCEPT !.internal_list[index + 1].entry = set_dummy(@)]

\* a faulty remove, which marks the slot found without the test of line 130
remove_found_unguarded(self, found) ==
    IF found.hung THEN [self EXCEPT !.hung = TRUE]
    ELSE set_dummy_at(self, found.index)

\* lines 130 to 135: found is what __lookup_key returned
remove_found(self, found) ==
    IF found.hung THEN [self EXCEPT !.hung = TRUE]
    ELSE IF is_filled(entry_at(self, found.index))
      THEN set_dummy_at(self, found.index)
    ELSE self

remove(self, key) == remove_found(self, lookup_key(self, key, TRUE))

\* __get_items: the keys and values of the filled slots, in list order
RECURSIVE get_items_from(_, _)
get_items_from(self, i) ==
    IF i >= Len(self.internal_list) THEN << >>
    ELSE (IF is_filled(entry_at(self, i))
            THEN << << entry_at(self, i).key, entry_at(self, i).value >> >>
            ELSE << >>)
         \o get_items_from(self, i + 1)

items(self) == get_items_from(self, 0)

keys(self) == [i \in 1 .. Len(items(self)) |-> items(self)[i][1]]

values(self) == [i \in 1 .. Len(items(self)) |-> items(self)[i][2]]

RECURSIVE update(_, _, _)
RECURSIVE replay(_, _, _)

\* the loop `for key, value in items: self.update(key, value)`
replay(self, its, i) ==
    IF i > Len(its) \/ self.hung THEN self
    ELSE replay(update(self, its[i][1], its[i][2]), its, i + 1)

\* line 233, unless a replayed update never returned
increment_size_end(self) ==
    IF self.hung THEN self ELSE [self EXCEPT !.update_used = TRUE]

\* a faulty __increment_size, which leaves out the loop of lines 229, 230
increment_size_no_replay(self, its) ==
    increment_size_end(init_internal_list(self))

\* lines 228 to 230: its is the list items of line 227
increment_size_replay(self, its) ==
    increment_size_end(replay(init_internal_list(self), its, 1))

\* lines 223 to 227 (<<= 1 doubles the size)
increment_size_from(self) == increment_size_replay(self, items(self))

\* a faulty __increment_size, which leaves out line 223: the replayed
\* updates count
increment_size_counting(self) ==
    increment_size_from([self EXCEPT !.size = 2 * @])

\* a faulty __increment_size, which shifts the size by 2
increment_size_by_four(self) ==
    increment_size_from([self EXCEPT !.update_used = FALSE, !.size = 4 * @])

increment_size(self) ==
    increment_size_from([self EXCEPT !.update_used = FALSE, !.size = 2 * @])

\* lines 142 to 144: found is what __lookup_key returned
update_found(self, key, value, found) ==
    IF found.hung THEN [self EXCEPT !.hung = TRUE]
    ELSE [self EXCEPT
            !.used = IF ~is_dummy(entry_at(self, found.index))
                          /\ self.update_used
                       THEN @ + 1 ELSE @,
            !.internal_list[found.index + 1] =
                OwnRef(HashTableEntry(key, value))]

\* lines 141 on, unless __increment_size never returned
update_place(self, key, value) ==
    IF self.hung THEN self
    ELSE update_found(self, key, value, lookup_key(self, key, FALSE))

\* a faulty update, which tests used / size: the resize comes one update
\* late
update_late_resize(self, key, value) ==
    update_place(IF self.used > load_factor * self.size
                   THEN increment_size(self) ELSE self,
                 key, value)

\* (used + 1) / size > load_factor, with both sides multiplied by size
update(self, key, value) ==
    update_place(IF self.used + 1 > load_factor * self.size
                   THEN increment_size(self) ELSE self,
                 key, value)

(***************************************************************************)
(* The inputs.                                                             *)
(***************************************************************************)
Max(a, b) == IF a >= b THEN a ELSE b

Keys == {PyInt(k) : k \in 0 .. MaxKey}

FillKeys == {PyInt(k) : k \in 0 .. MaxFillKey}

AllKeys == {PyInt(k) : k \in 0 .. Max(MaxKey, MaxFillKey)}

Values == {PyInt(v) : v \in 1 .. MaxVal}

\* values of the process's default secret key (_Py_HashSecret): under 0
\* the keys 0 and 1 start at different indices, under 5 at the same index
DefaultSecrets == {PyInt(0), PyInt(5)}

\* values of random.getrandbits(128): 5 and 2^64 + 5
HashKeys == {PyInt(5), PyOr(PyShl(PyInt(1), 64), PyInt(5))}

\* values of HashTableEntry.hash_compress_bits: off (the default), 2 bits
CompressChoices == {0, 2}

Strategies == {"simple", "modified", "pythonic"}

\* values of collision_resolution: the three strategies and another string
StrategyInputs == Strategies \cup {"other"}

(***************************************************************************)
(* The table specification: one HashTable() and any sequence of its public *)
(* calls.                                                                  *)
(***************************************************************************)
\* the class statement of HashTableEntry: its hasher, with the process's
\* default secret key, and the hash of every key the model uses
ClassInit(secrets, bits) ==
    /\ siphash \in {SipHash_init(k, TRUE) : k \in secrets}
    /\ hash_compress_bits \in bits
    /\ entry_hash =
         [k \in AllKeys |-> entry_get_hash(siphash, hash_compress_bits, k)]

HasherIdle ==
    /\ sip = SipHash_init(PyZero, FALSE)
    /\ calls = << >>

\* hash_compress_bits keeps its default, 0 (the driver specification also
\* takes compressed hashes)
Init ==
    /\ ClassInit(DefaultSecrets, {0})
    /\ table \in {HashTable_init(None, c) : c \in Strategies}
    /\ written = [k \in AllKeys |-> None]
    /\ removed = 0
    /\ main_i = 0
    /\ HasherIdle

\* an update at the bound of used stays below it only when its lookup
\* returns a Tombstone
Update(k, v) ==
    /\ ~table.hung
    /\ table.used >= MaxUsed =>
           {m \in 0 .. (table.size - 1) : is_dummy(entry_at(table, m))} # {}
    /\ table' = update(table, k, v)
    /\ table'.used <= MaxUsed
    /\ written' = IF table'.hung THEN written ELSE [written EXCEPT ![k] = v]
    /\ UNCHANGED << siphash, hash_compress_bits, entry_hash, removed, main_i,
                    sip, calls >>

Remove(k) ==
    /\ ~table.hung
    /\ removed < MaxRemoves
    /\ table' = remove(table, k)
    /\ written' = IF table'.hung THEN written ELSE [written EXCEPT ![k] = None]
    /\ removed' = IF table' = table \/ table'.hung THEN removed ELSE removed + 1
    /\ UNCHANGED << siphash, hash_compress_bits, entry_hash, main_i,
                    sip, calls >>

Get(k) ==
    /\ ~table.hung
    /\ table' = get(table, k).self
    /\ UNCHANGED << siphash, hash_compress_bits, entry_hash, written, removed,
                    main_i, sip, calls >>

Next ==
    \/ \E k \in Keys, v \in Values : Update(k, v)
    \/ \E k \in Keys : Remove(k)
    \/ \E k \in Keys : Get(k)

Spec == Init /\ [][Next]_vars

(***************************************************************************)
(* The constructor specification: one call of HashTable(...) with any      *)
(* value of collision_resolution, under python or python -O, and then the  *)
(* public calls on the table it returned.  Before the call the variable    *)
(* table is None; after it, it is the instance returned or the record of   *)
(* the exception raised.  No call is made here on an instance whose        *)
(* __get_new_index is not set (the first collision on it raises            *)
(* AttributeError).                                                        *)
(***************************************************************************)
IsTable(t) == "size" \in DOMAIN t

NewInit ==
    /\ ClassInit(DefaultSecrets, {0})
    /\ table = None
    /\ written = [k \in AllKeys |-> None]
    /\ removed = 0
    /\ main_i = 0
    /\ HasherIdle

New(c, debug) ==
    /\ table = None
    /\ table' = HashTable_new(None, c, debug)
    /\ UNCHANGED << siphash, hash_compress_bits, entry_hash, written, removed,
                    main_i, sip, calls >>

Usable(t) == IsTable(t) /\ t.get_new_index # Unset

NewUpdate(k, v) == Usable(table) /\ Update(k, v)

NewRemove(k) == Usable(table) /\ Remove(k)

NewGet(k) == Usable(table) /\ Get(k)

NewNext ==
    \/ \E c \in StrategyInputs, debug \in BOOLEAN : New(c, debug)
    \/ \E k \in Keys, v \in Values : NewUpdate(k, v)
    \/ \E k \in Keys : NewRemove(k)
    \/ \E k \in Keys : NewGet(k)

SpecNew == NewInit /\ [][NewNext]_vars

(***************************************************************************)
(* The driver specification: the body of the driver's loop over secret     *)
(* keys (lines 253 to 260) for one table, HashTable(hash_key=secret_key,   *)
(* collision_resolution=c) filled with update(i, i*i) for i = 0, 1, ...,   *)
(* and get and remove calls on the keys of the fill between the updates.   *)
(***************************************************************************)
MainInit ==
    /\ ClassInit(DefaultSecrets, CompressChoices)
    /\ table \in {HashTable_init(k, c) : k \in HashKeys, c \in Strategies}
    /\ written = [k \in AllKeys |-> None]
    /\ removed = 0
    /\ main_i = 0
    /\ HasherIdle

\* line 258 (259, 260) and the loop's step
MainUpdate ==
    /\ ~table.hung
    /\ main_i <= MaxFillKey
    /\ table' = update(table, PyInt(main_i), PyInt(main_i * main_i))
    /\ written' = IF table'.hung THEN written
                  ELSE [written EXCEPT ![PyInt(main_i)] = PyInt(main_i * main_i)]
    /\ main_i' = main_i + 1
    /\ UNCHANGED << siphash, hash_compress_bits, entry_hash, removed,
                    sip, calls >>

MainNext ==
    \/ MainUpdate
    \/ \E k \in FillKeys : Remove(k)
    \/ \E k \in FillKeys : Get(k)

SpecMain == MainInit /\ [][MainNext]_vars

(***************************************************************************)
(* The hasher specification: one SipHash instance and calls of get_hash on *)
(* it.                                                                     *)
(***************************************************************************)
\* the strings "" and "a", the integers 0, 1, 2^64 + 1 and -1, and an object
\* that is neither a string nor an integer (its id is its address)
HashInputs ==
    {[type |-> "str", chars |-> << >>],
     [type |-> "str", chars |-> << 97 >>],
     [type |-> "int", val |-> PyInt(0)],
     [type |-> "int", val |-> PyInt(1)],
     [type |-> "int", val |-> PyOr(PyShl(PyInt(1), 64), PyInt(1))],
     [type |-> "int", val |-> PyInt(-1)],
     [type |-> "obj", id |-> PyShl(PyInt(1), 12)]}

set_secret_key(self, new_secret_key) ==
    reset([self EXCEPT !.secret_key = new_secret_key])

HashInit ==
    /\ ClassInit({PyZero}, {0})
    /\ table = HashTable_init(None, "simple")
    /\ written = [k \in AllKeys |-> None]
    /\ removed = 0
    /\ main_i = 0
    /\ sip \in {SipHash_init(k, a) : k \in HashKeys, a \in BOOLEAN}
    /\ calls = << >>

GetHash(x) ==
    /\ ~sip.hung
    /\ Len(calls) < MaxCalls
    /\ sip' = get_hash(sip, x)
    /\ calls' = IF sip'.hung THEN calls
                ELSE Append(calls, [input      |-> x,
                                    hash_value |-> sip'.hash_value])
    /\ UNCHANGED << siphash, hash_compress_bits, entry_hash, table, written,
                    removed, main_i >>

HashNext == \E x \in HashInputs : GetHash(x)

SpecHash == HashInit /\ [][HashNext]_vars

(***************************************************************************)
(* What the claims read of a table.                                        *)
(***************************************************************************)
Slots(t) == 0 .. (t.size - 1)

\* some Filled slot holds key k
Present(t, k) ==
    \E j \in Slots(t) : is_filled(entry_at(t, j)) /\ entry_at(t, j).key = k

\* the set of the pairs items() yields
ItemSet(t) == {items(t)[j] : j \in 1 .. Len(items(t))}

\* the call's result r, [self, value], is a return of None
ReturnsNone(r) == ~r.self.hung /\ r.value = None

(***************************************************************************)
(* The claims about update, remove and get on one table.                   *)
(***************************************************************************)
\* C1: post-removal.  In every reachable state, for every key k, once
\* remove(k) has returned, get(k) returns None -- also when k was put again
\* by update while a Tombstone lay on its probe chain before its slot.
C1_PostRemoval ==
    ~table.hung =>
        \A k \in Keys :
            ~remove(table, k).hung => ReturnsNone(get(remove(table, k), k))

\* C2: round trip.  In every reachable state, get(k) returns the value of
\* the last update(k, v) that no remove(k) followed, whatever calls on other
\* keys and whatever resizes came in between.
C2_RoundTrip ==
    ~table.hung =>
        \A k \in Keys :
            written[k] # None =>
                /\ ~get(table, k).self.hung
                /\ get(table, k).value = written[k]

\* C4: load-factor invariant.  Every call that returns leaves
\* used / size <= load_factor (used <= load_factor * size), and leaves the
\* capacity as it was or doubled once; an update that finds used + 1 above
\* the threshold is such a step.
C4_LoadFactor ==
    [][~table'.hung =>
          /\ table'.used <= load_factor * table'.size
          /\ table'.size \in {table.size, 2 * table.size}]_vars

\* the table has been resized by an update that then placed its key
C4_Witness ==
    /\ ~table.hung
    /\ table.size = 16
    /\ table.used = 9

\* C5: a resize preserves contents.  In every reachable state in which the
\* next update resizes, the set of pairs of items() after __increment_size
\* (before the update's own key is placed) is the set before it.
C5_ResizePreserves ==
    (~table.hung /\ table.used + 1 > load_factor * table.size) =>
        /\ ~increment_size(table).hung
        /\ ItemSet(increment_size(table)) = ItemSet(table)

\* the slots whose state differs between the tables t and r
ChangedSlots(t, r) ==
    {m \in Slots(t) : state(entry_at(r, m)) # state(entry_at(t, m))}

\* the slots of t that are Filled with key k
FilledWith(t, k) ==
    {m \in Slots(t) : is_filled(entry_at(t, m)) /\ entry_at(t, m).key = k}

\* what remove(k) may change between t and r, the table after it: the
\* capacity and used stay; if k is present exactly one slot changes, a Filled
\* slot of key k that becomes a Tombstone; if k is absent no slot changes
RemoveFrame(t, r, k, changed) ==
    /\ r.size = t.size
    /\ r.used = t.used
    /\ Len(r.internal_list) = Len(t.internal_list)
    /\ IF Present(t, k)
         THEN \E j \in FilledWith(t, k) :
                  changed = {j} /\ is_dummy(entry_at(r, j))
         ELSE changed = {}

\* r is the table remove(k) leaves of t, if remove(k) returns
RemoveFrameIfReturns(t, r, k) ==
    ~r.hung => RemoveFrame(t, r, k, ChangedSlots(t, r))

\* C10: the frame of remove.  In every reachable state, for every key k,
\* remove(k) changes at most one slot (the Filled slot of k, to Tombstone)
\* and neither used nor the capacity; the Empty slots, which share one
\* entry object, stay Empty.
C10_RemoveFrame ==
    ~table.hung =>
        \A k \in Keys : RemoveFrameIfReturns(table, remove(table, k), k)

\* a remove has marked a slot while other slots are Filled and Empty
C10_Witness ==
    /\ ~table.hung
    /\ removed > 0
    /\ \E j, m, n \in Slots(table) :
          /\ is_dummy(entry_at(table, j))
          /\ is_filled(entry_at(table, m))
          /\ is_empty(entry_at(table, n))

(***************************************************************************)
(* The claims about the driver's tables.                                   *)
(***************************************************************************)
\* C3: get and remove of an absent key run to completion.  In every
\* reachable state, for every key k that no Filled slot holds, get(k)
\* returns None and remove(k) returns and changes nothing -- also when the
\* table has no Empty slot left.
C3_AbsentTerminates ==
    ~table.hung =>
        \A k \in FillKeys :
            ~Present(table, k) =>
                /\ ReturnsNone(get(table, k))
                /\ remove(table, k) = table

\* the pairs (j, j*j) of the first n updates of the driver
FillPairs(n) == {<< PyInt(j), PyInt(j * j) >> : j \in 0 .. (n - 1)}

\* the table r that __increment_size leaves holds the first n pairs in 16
\* slots, and the update's own key is not placed yet
ResizedFirst(r, n) ==
    /\ ~r.hung
    /\ r.size = 16
    /\ r.used = n
    /\ ItemSet(r) = FillPairs(n)
    /\ ~Present(r, PyInt(n))

\* C6: resize timing.  While the driver has put up to 8 distinct keys in a
\* fresh table and nothing was removed, the capacity is 8 and used is the
\* number of keys; the 9th update first resizes to capacity 16 and then
\* places its key; afterwards the capacity is 16 and items() yields every
\* pair put, each once.
C6_ResizeTiming ==
    (~table.hung /\ removed = 0) =>
        /\ main_i <= 8 => (table.size = 8 /\ table.used = main_i)
        /\ main_i = 8 => ResizedFirst(increment_size(table), main_i)
        /\ main_i > 8 =>
              /\ table.size = 16
              /\ table.used = main_i
              /\ ItemSet(table) = FillPairs(main_i)
              /\ Len(items(table)) = main_i

\* the 9th update has returned
C6_Witness ==
    /\ ~table.hung
    /\ removed = 0
    /\ main_i = 9
    /\ table.size = 16
    /\ Len(items(table)) = 9

\* C7: in every reachable state the hash stored in a Filled entry is the
\* hash of its key under the secret key of the table that holds it, the
\* hash_key given to the table's constructor.
C7_HashUnderTableKey ==
    \A j \in Slots(table) :
        is_filled(entry_at(table, j)) =>
            entry_at(table, j).hash_value =
                entry_get_hash(SipHash_init(table.hash_key, TRUE),
                               hash_compress_bits, entry_at(table, j).key)

(***************************************************************************)
(* The claims about the hasher.                                            *)
(***************************************************************************)
\* the value a new hasher with self's secret key returns for input x
FreshHash(self, x) ==
    get_hash(SipHash_init(self.secret_key, self.allow_negative), x).hash_value

\* C8: determinism.  Every call of get_hash that returned gave the value a
\* new hasher with the same secret key gives for the input, whatever was
\* hashed on the instance before; so two calls on one input gave one value.
C8_Determinism ==
    \A a \in 1 .. Len(calls) :
        /\ calls[a].hash_value = FreshHash(sip, calls[a].input)
        /\ \A b \in 1 .. Len(calls) :
               calls[a].input = calls[b].input =>
                   calls[a].hash_value = calls[b].hash_value

\* a call returned after a call on another input, with another value
C8_Witness ==
    /\ Len(calls) >= 2
    /\ calls[1].input # calls[2].input
    /\ calls[1].hash_value # calls[2].hash_value
    /\ calls[2].hash_value # PyZero

\* h is a 64-bit value: unsigned, or signed if the hasher remaps
Is64Bit(h, allow_negative) ==
    /\ h.s \subseteq 0 .. 63
    /\ h.neg => (~allow_negative /\ 63 \notin h.s)
    /\ (~h.neg /\ ~allow_negative) => 63 \notin h.s

\* C9: hashing is total.  No call of get_hash enters a loop it never
\* leaves, whatever the input (strings, integers of both signs, objects),
\* and every value returned is a 64-bit value.
C9_HashTotal ==
    /\ ~sip.hung
    /\ \A a \in 1 .. Len(calls) :
           Is64Bit(calls[a].hash_value, sip.allow_negative)

(***************************************************************************)
(* The claims about get, the constructor and the probing functions.        *)
(***************************************************************************)
\* r is the table get leaves of t: the same slot array (the same references
\* to the same entries), capacity and used
GetFrame(t, r) ==
    /\ r.internal_list = t.internal_list
    /\ r.empty_entry = t.empty_entry
    /\ r.size = t.size
    /\ r.used = t.used

\* C11: get does not change the table.  In every reachable state, for every
\* key k, the slot array, the capacity and used are the same before and
\* after a get(k) that returns.
C11_GetNoMutation ==
    ~table.hung =>
        \A k \in Keys :
            ~get(table, k).self.hung => GetFrame(table, get(table, k).self)

\* a get finds its key behind a Tombstone
C11_Witness ==
    /\ ~table.hung
    /\ \E k \in Keys :
          /\ get(table, k).value # None
          /\ is_dummy(entry_at(table, PyNat(PyAnd(entry_hash[k],
                                                  PyInt(table.size - 1)))))

\* C12: a constructor call with a collision_resolution that is none of
\* simple, modified, pythonic fails: it raises, and in no reachable state has
\* it returned a table whose probe function is not set.
C12_InvalidStrategyFails ==
    /\ [](IsTable(table) => table.get_new_index \in Strategies)
    /\ [][\A debug \in BOOLEAN :
              New("other", debug) => table' = [raised |-> "AssertionError"]]_vars

\* the initial index of hash value h in table t (line 167)
InitialIndex(t, h) == PyNat(PyAnd(h, PyInt(t.size - 1)))

\* the index of the first probe step of hash value h in table t
FirstStep(t, h) == get_new_index(t, InitialIndex(t, h), h).index

\* C13: under the pythonic strategy two keys of the table with the same
\* initial index and different hash values are at different indices after
\* one probe step.
C13_PythonicDiverges ==
    (~table.hung /\ table.get_new_index = "pythonic") =>
        \A k1, k2 \in FillKeys :
            (/\ Present(table, k1)
             /\ Present(table, k2)
             /\ entry_hash[k1] # entry_hash[k2]
             /\ InitialIndex(table, entry_hash[k1])
                  = InitialIndex(table, entry_hash[k2]))
                => FirstStep(table, entry_hash[k1])
                     # FirstStep(table, entry_hash[k2])

\* the table in which the lookup of update(k, v) runs: t, resized if the
\* test of line 139 says so
LookupTable(t) ==
    IF t.used + 1 > load_factor * t.size THEN increment_size(t) ELSE t

\* the distances d for which slot (i0 + d) mod size of t is not Filled
FreeDistances(t, i0) ==
    {d \in Slots(t) : ~is_filled(entry_at(t, (i0 + d) % t.size))}

\* the first slot of t that is not Filled in the cyclic order i0, i0 + 1, ...
FirstFree(t, i0) ==
    (i0 + (CHOOSE d \in FreeDistances(t, i0) :
               \A e \in FreeDistances(t, i0) : d <= e)) % t.size

\* r, the table update(k, v) leaves of b, has the pair at slot j and every
\* other slot as it was in b
PlacedAt(b, r, k, v, j) ==
    /\ ~r.hung
    /\ is_filled(entry_at(r, j))
    /\ entry_at(r, j).key = k
    /\ entry_at(r, j).value = v
    /\ \A m \in Slots(b) \ {j} : entry_at(r, m) = entry_at(b, m)

\* b is the table the lookup runs in: it has a slot that is not Filled, and
\* update puts the pair there
SimplePlacement(t, b, k, v) ==
    /\ ~b.hung
    /\ FreeDistances(b, InitialIndex(b, entry_hash[k])) # {}
    /\ PlacedAt(b, update(t, k, v), k, v,
                FirstFree(b, InitialIndex(b, entry_hash[k])))

\* C14: simple placement.  In every reachable state of a table with the
\* simple strategy, update(k, v) of a key k that no Filled slot holds puts k
\* in the first slot that is not Filled in the cyclic order i0, i0 + 1, ...
\* from i0 = hash(k) & mask.
C14_SimplePlacement ==
    (~table.hung /\ table.get_new_index = "simple") =>
        \A k \in Keys :
            ~Present(table, k) =>
                \A v \in Values : SimplePlacement(table, LookupTable(table), k, v)

\* a key is in the slot after its initial index, which another key fills
C14_Witness ==
    /\ ~table.hung
    /\ table.get_new_index = "simple"
    /\ \E k \in Keys :
          /\ is_filled(entry_at(table, InitialIndex(table, entry_hash[k])))
          /\ entry_at(table, InitialIndex(table, entry_hash[k])).key # k
          /\ is_filled(entry_at(table,
                 (InitialIndex(table, entry_hash[k]) + 1) % table.size))
          /\ entry_at(table,
                 (InitialIndex(table, entry_hash[k]) + 1) % table.size).key = k

(***************************************************************************)
(* The claims about the slots, used and the capacity.                      *)
(***************************************************************************)
\* the steps of one slot, from entry a to entry b: Empty to Empty or Filled,
\* Filled to Filled with the same key or to Tombstone, Tombstone to
\* Tombstone or Filled
SlotStep(a, b) ==
    \/ is_empty(a) /\ (is_empty(b) \/ is_filled(b))
    \/ is_filled(a) /\ is_filled(b) /\ a.key = b.key
    \/ is_filled(a) /\ is_dummy(b)
    \/ is_dummy(a) /\ (is_dummy(b) \/ is_filled(b))

\* C15: the entry state machine.  In every step that keeps the slot array
\* (the capacity does not change), every slot makes one of the steps of
\* SlotStep: none goes from Tombstone or Filled to Empty, or from Empty to
\* Tombstone, or from Filled to Filled with another key.
C15_EntryStates ==
    [][(~table'.hung /\ table'.size = table.size) =>
          \A m \in Slots(table) :
              SlotStep(entry_at(table, m), entry_at(table', m))]_vars

\* the one Tombstone made was filled again, and no resize came in between
C15_Witness ==
    /\ ~table.hung
    /\ table.size = 8
    /\ removed > 0
    /\ \A m \in Slots(table) : ~is_dummy(entry_at(table, m))

\* what update(k, v) adds to used: b is the table its lookup runs in, target
\* the entry at the index the lookup returns, r the table it leaves
UsedStep(b, target, r) ==
    /\ ~r.hung
    /\ r.used = b.used + (IF is_dummy(target) THEN 0 ELSE 1)

\* b is the table the lookup of update(k, v) on t runs in (t, or t resized):
\* the resize leaves used as it was, and the placement follows UsedStep
UsedRule(t, b, k, v) ==
    /\ ~b.hung
    /\ b.used = t.used
    /\ UsedStep(b, entry_at(b, lookup_key(b, k, FALSE).index), update(t, k, v))

\* C16: the step rule of used.  In every reachable state, update(k, v) adds
\* 1 to used if the slot its lookup returns is not a Tombstone and 0 if it
\* is one; a resize inside the update, with its replayed updates, adds 0.
\* (No line that writes used reads the value: the rule is checked for every
\* key with the value 1.)
C16_UsedStepRule ==
    ~table.hung =>
        \A k \in Keys : UsedRule(table, LookupTable(table), k, PyInt(1))

\* an update has reused a Tombstone (used stayed) and a later one resized
C16_Witness ==
    /\ ~table.hung
    /\ removed > 0
    /\ table.size = 16
    /\ table.used = 9

RECURSIVE IsPowerOfTwo(_)
IsPowerOfTwo(n) ==
    IF n <= 1 THEN n = 1
    ELSE n % 2 = 0 /\ IsPowerOfTwo(n \div 2)

\* C17: the capacity.  It starts at 8; in every reachable state it is a
\* power of two, at least 8, and the length of the slot array; no step
\* lowers it, and a step that changes it doubles it and starts where
\* used + 1 is above load_factor * capacity (the test of update).
C17_Capacity ==
    /\ table.size = 8
    /\ [](/\ IsPowerOfTwo(table.size)
          /\ table.size >= 8
          /\ Len(table.internal_list) = table.size)
    /\ [][table'.size # table.size =>
              /\ table'.size = 2 * table.size
              /\ table.used + 1 > load_factor * table.size]_vars

\* the capacity has doubled
C17_Witness ==
    /\ ~table.hung
    /\ table.size = 16
    /\ Len(table.internal_list) = 16
    /\ table.used > 8

\* C18: key uniqueness.  In every reachable state no two Filled slots hold
\* the same key, so keys() and items() yield each key at most once.
C18_KeyUniqueness ==
    ~table.hung =>
        /\ \A k \in Keys : Cardinality(FilledWith(table, k)) <= 1
        /\ \A a, b \in 1 .. Len(keys(table)) :
               keys(table)[a] = keys(table)[b] => a = b

\* the slots of t that are not Empty: Filled or Tombstone
NonEmptySlots(t) == {j \in Slots(t) : ~is_empty(entry_at(t, j))}

\* the indices the probe sequence of t visits from (index, hash_value), up
\* to the first pair it meets a second time
RECURSIVE ProbeIndices(_, _, _, _)
ProbeStep(t, index, next, seen) ==
    IF << next.index, next.hash_value >> \in seen THEN {index}
    ELSE {index} \cup ProbeIndices(t, next.index, next.hash_value,
                                   seen \cup {<< next.index, next.hash_value >>})

ProbeIndices(t, index, hash_value, seen) ==
    ProbeStep(t, index, get_new_index(t, index, hash_value), seen)

\* the probe sequence of key k in table b visits every index
ProbeCovers(b, k) ==
    ProbeIndices(b, InitialIndex(b, entry_hash[k]), entry_hash[k],
                 {<< InitialIndex(b, entry_hash[k]), entry_hash[k] >>})
        = Slots(b)

\* in b, the table the lookup of update(k, .) runs in, used is below the
\* capacity, an Empty slot exists and the hash of k is non-negative
ProbeReaches(b, k) ==
    /\ ~b.hung
    /\ b.used < b.size
    /\ \E j \in Slots(b) : is_empty(entry_at(b, j))
    /\ ~entry_hash[k].neg

\* t is a reachable table and b the table the lookup of its next update
\* runs in
UpdateTerminates(t, b) ==
    /\ Cardinality(NonEmptySlots(t)) <= t.used
    /\ \A k \in FillKeys :
          /\ ProbeReaches(b, k)
          /\ ~update_place(b, k, PyInt(1)).hung
    /\ main_i <= MaxFillKey => ProbeCovers(b, PyInt(main_i))

EncodedMessage(x) ==
    IF x.type = "str" THEN str2int(x.chars)
    ELSE IF x.type = "int" THEN x.val
    ELSE x.id

\* L = ceil(bitlength(m) / 8)
ByteLength(m) == (PyBitLength(m) + 7) \div 8

\* W = floor(L / 8) + 1
WordCount(m) == ByteLength(m) \div 8 + 1

\* m + (L << (64 * W - 8))
TaggedMessage(m) ==
    PyAdd(m, PyShl(PyInt(ByteLength(m)), 64 * WordCount(m) - 8))

\* the tag of m is as the claim says, it overlaps no bit of m, and the
\* words absorbed are the W 64-bit words of the tagged message, low to high
LengthTagged(m, words) ==
    /\ add_size_byte(m) = TaggedMessage(m)
    /\ \A i \in m.s : i < 64 * WordCount(m) - 8
    /\ PyAnd(PyShr(add_size_byte(m), 64 * WordCount(m) - 8), PyInt(255))
         = PyInt(ByteLength(m))
    /\ Len(words) = WordCount(m)
    /\ \A i \in 1 .. Len(words) :
          words[i] = PyAnd(PyShr(add_size_byte(m), 64 * (i - 1)), Mask64)

\* C20: length tagging.  For every input that get_hash has hashed whose
\* encoded message m is non-negative with byte length L below 256, the
\* tagged message is m + (L << (64 * W - 8)), W = floor(L / 8) + 1, and the
\* compression step absorbs exactly its W words, low to high.
C20_LengthTagging ==
    \A c \in 1 .. Len(calls) :
        (/\ ~EncodedMessage(calls[c].input).neg
         /\ ByteLength(EncodedMessage(calls[c].input)) < 256)
            => LengthTagged(EncodedMessage(calls[c].input),
                            absorbed_words(EncodedMessage(calls[c].input)))

=============================================================================
